---- MODULE Spec2Model ----
(***************************************************************************)
(* Share-move session of the secret-store key server cluster               *)
(* (secret_store/src/key_server_cluster/admin_sessions/                    *)
(* share_move_session.rs).  One SessionImpl per node; the nodes exchange   *)
(* ShareMoveMessage values through a transport, and every node owns a key  *)
(* storage holding at most one DocumentKeyShare for the key being moved.   *)
(***************************************************************************)
EXTENDS Integers, FiniteSets, Sequences, Bags, TLC

(***************************************************************************)
(* The cluster of the model: the nodes that own a share of the key when    *)
(* the session is created, and the nodes that join.                        *)
(***************************************************************************)
NumHolders == 3
NumNew == 2
\* largest shares_to_move map a caller or a message offers
MaxMoves == 2
\* calls that are not part of a protocol run: forged or repeated messages,
\* repeated initialize calls, initialize on a node that is not the master
MaxExtraCalls == 1
\* largest shares_to_move map of an extra initialize call or a forged proposal
MaxForgedMoves == 1
\* threads that call into the sessions at the same time
NumThreads == 2

OldNodes == 1..NumHolders
NewNodes == (NumHolders + 1)..(NumHolders + NumNew)
Nodes == OldNodes \cup NewNodes
master_node_id == 1
nonce == 1
threshold == 1

\* Option<T>: None is the empty set, Some(x) the singleton
None == {}
Some(x) == {x}
Unwrap(o) == CHOOSE x \in o : TRUE

\* BTreeMap<K, V>: a function on its key set
EmptyMap == [k \in {} |-> 0]
Keys(m) == DOMAIN m
Values(m) == {m[k] : k \in DOMAIN m}
\* BTreeMap::extend: entries of b replace those of a
Extend(a, b) == [k \in (DOMAIN a) \cup (DOMAIN b) |-> IF k \in DOMAIN b THEN b[k] ELSE a[k]]
\* faulty variant: the entry is inserted under the new key and kept under the old one
MoveKey_keeps_source(m, from, to) ==
    [k \in (DOMAIN m) \cup {to} |-> IF k = to THEN m[from] ELSE m[k]]

\* BTreeMap::remove followed by BTreeMap::insert of the removed value
MoveKey(m, from, to) ==
    [k \in ((DOMAIN m) \ {from}) \cup {to} |-> IF k = to THEN m[from] ELSE m[k]]
Min(S) == CHOOSE x \in S : \A y \in S : x <= y

\* the evaluation point and the secret share of an old node
IdNumber(n) == 10 + n
SecretShare(n) == 20 + n
\* the DocumentKeyShare an old node owns when the session is created
OriginalShare(n) ==
    [author |-> 0,
     threshold |-> threshold,
     id_numbers |-> [k \in OldNodes |-> IdNumber(k)],
     polynom1 |-> <<30, 31>>,
     secret_share |-> SecretShare(n),
     common_point |-> Some(40),
     encrypted_point |-> Some(41)]
\* SessionCore::key_share
key_share(n) == IF n \in OldNodes THEN Some(OriginalShare(n)) ELSE None

\* every shares_to_move map with at most MaxMoves entries
Mappings ==
    UNION {[S -> Nodes] : S \in {T \in SUBSET Nodes : Cardinality(T) <= MaxMoves}}

WaitingForInitialization == "WaitingForInitialization"
WaitingForInitializationConfirm == "WaitingForInitializationConfirm"
WaitingForMoveConfirmation == "WaitingForMoveConfirmation"
Finished == "Finished"
SessionState ==
    {WaitingForInitialization, WaitingForInitializationConfirm,
     WaitingForMoveConfirmation, Finished}

\* SessionData as new_nested creates it
NewSessionData ==
    [state |-> WaitingForInitialization,
     init_confirmations_to_receive |-> {},
     move_confirmations_to_receive |-> {},
     shares_to_move |-> EmptyMap,
     received_key_share |-> None]

\* ShareMoveMessage, with the sender and the receiver the transport adds
Message(kind, from, to, n, stm, share) ==
    [kind |-> kind, from |-> from, to |-> to, session_nonce |-> n,
     shares_to_move |-> stm, share |-> share]
InitializeShareMoveSession(from, to, stm) ==
    Message("InitializeShareMoveSession", from, to, nonce, stm, None)
ConfirmShareMoveInitialization(from, to) ==
    Message("ConfirmShareMoveInitialization", from, to, nonce, EmptyMap, None)
ShareMoveRequest(from, to) ==
    Message("ShareMoveRequest", from, to, nonce, EmptyMap, None)
ShareMove(from, to, share) ==
    Message("ShareMove", from, to, nonce, EmptyMap, Some(share))
ShareMoveConfirm(from, to) ==
    Message("ShareMoveConfirm", from, to, nonce, EmptyMap, None)
MessageKinds ==
    {"InitializeShareMoveSession", "ConfirmShareMoveInitialization",
     "ShareMoveRequest", "ShareMove", "ShareMoveConfirm", "ShareMoveError"}

VARIABLES
    data,          \* data[n]: the SessionData of node n's session
    key_storage,   \* key_storage[n]: the record node n's storage holds for the key
    storage_calls, \* storage_calls[n]: the storage mutations node n's session made
    network,       \* the bag of messages sent and not yet delivered
    last,          \* the last call: its receiver, its input, its result and effects
    accepted,      \* <<n, kind, sender>>: node n returned Ok for a confirmation from sender
    initialize_called, \* the administrator has called initialize on the master
    extra_calls,   \* calls made so far that are not part of the protocol run
    threads        \* threads[t]: the call thread t is in, and how far it has got

vars ==
    <<data, key_storage, storage_calls, network, last, accepted, initialize_called,
      extra_calls, threads>>

(***************************************************************************)
(* check_shares_to_move                                                    *)
(***************************************************************************)
\* faulty variant: the values of the map are not compared
distinct_values_unchecked(shares_to_move) == TRUE

\* shares_to_move.values().collect::<BTreeSet<_>>().len() == shares_to_move.len()
distinct_values(shares_to_move) ==
    Cardinality(Values(shares_to_move)) = Cardinality(Keys(shares_to_move))

\* faulty variant: a node without a view accepts a map that does not list it
\* as a destination
check_shares_to_move_any_joiner(self_node_id, shares_to_move, id_numbers) ==
    IF Keys(shares_to_move) = {} THEN "InvalidMessage"
    ELSE IF id_numbers # None
            /\ \E n \in Keys(shares_to_move) : n \notin Keys(Unwrap(id_numbers))
         THEN "InvalidNodesConfiguration"
    ELSE IF id_numbers # None
            /\ \E n \in Values(shares_to_move) : n \in Keys(Unwrap(id_numbers))
         THEN "InvalidNodesConfiguration"
    ELSE IF id_numbers = None /\ self_node_id \in Keys(shares_to_move)
         THEN "InvalidMessage"
    ELSE IF ~distinct_values(shares_to_move)
         THEN "InvalidNodesConfiguration"
    ELSE "Ok"

check_shares_to_move(self_node_id, shares_to_move, id_numbers) ==
    IF Keys(shares_to_move) = {} THEN "InvalidMessage"
    ELSE IF id_numbers # None
            /\ \E n \in Keys(shares_to_move) : n \notin Keys(Unwrap(id_numbers))
         THEN "InvalidNodesConfiguration"
    ELSE IF id_numbers # None
            /\ \E n \in Values(shares_to_move) : n \in Keys(Unwrap(id_numbers))
         THEN "InvalidNodesConfiguration"
    ELSE IF id_numbers = None /\ self_node_id \in Keys(shares_to_move)
         THEN "InvalidMessage"
    ELSE IF id_numbers = None /\ self_node_id \notin Values(shares_to_move)
         THEN "InvalidMessage"
    ELSE IF ~distinct_values(shares_to_move)
         THEN "InvalidNodesConfiguration"
    ELSE "Ok"

\* key_share.as_ref().map(|ks| &ks.id_numbers)
id_numbers_of(share) ==
    IF share = None THEN None ELSE Some(Unwrap(share).id_numbers)


(***************************************************************************)
(* The result of one call on a session: what it returns, the SessionData   *)
(* it leaves, the messages it handed to the transport and the storage      *)
(* mutations it made.  The transport and the storage accept every call.    *)
(***************************************************************************)
Outcome(result, d, sends, stores) ==
    [result |-> result, data |-> d, sends |-> sends, stores |-> stores]
\* a call that returns before changing anything
Rejected(result, d) == Outcome(result, d, EmptyBag, <<>>)

\* KeyStorage::remove, update, insert as complete_session calls them
StorageRemove == [op |-> "remove", share |-> None]
StorageUpdate(share) == [op |-> "update", share |-> Some(share)]
StorageInsert(share) == [op |-> "insert", share |-> Some(share)]

\* the loop of complete_session over shares_to_move, in key order; None when
\* the expect on id_numbers.remove(source_node) fails
RECURSIVE reindex(_, _, _)
reindex(id_numbers, shares_to_move, todo) ==
    IF todo = {} THEN Some(id_numbers)
    ELSE LET source_node == Min(todo)
             target_node == shares_to_move[source_node]
         IN  IF source_node \notin Keys(id_numbers) THEN None
             ELSE reindex(MoveKey(id_numbers, source_node, target_node),
                          shares_to_move, todo \ {source_node})

\* faulty variant: the received share is taken before is_old_node is computed
complete_session_take_first(n, d) ==
    IF n \in Keys(d.shares_to_move)
    THEN Outcome("Ok", d, EmptyBag, <<StorageRemove>>)
    ELSE LET taken == [d EXCEPT !.received_key_share = None]
             source == key_share(n)
         IN  IF source = None THEN Outcome("Panic", taken, EmptyBag, <<>>)
             ELSE LET share == Unwrap(source)
                      ids == reindex(share.id_numbers, d.shares_to_move,
                                     Keys(d.shares_to_move))
                  IN  IF ids = None THEN Outcome("Panic", taken, EmptyBag, <<>>)
                      ELSE Outcome("Ok", taken, EmptyBag,
                                   <<StorageUpdate([share EXCEPT !.id_numbers = Unwrap(ids)])>>)

complete_session(n, d) ==
    IF n \in Keys(d.shares_to_move)
    THEN Outcome("Ok", d, EmptyBag, <<StorageRemove>>)
    ELSE LET is_old_node == d.received_key_share = None
             taken == [d EXCEPT !.received_key_share = None]
             source == IF is_old_node THEN key_share(n) ELSE d.received_key_share
         IN  IF source = None THEN Outcome("Panic", taken, EmptyBag, <<>>)
             ELSE LET share == Unwrap(source)
                      ids == reindex(share.id_numbers, d.shares_to_move,
                                     Keys(d.shares_to_move))
                  IN  IF ids = None THEN Outcome("Panic", taken, EmptyBag, <<>>)
                      ELSE LET updated == [share EXCEPT !.id_numbers = Unwrap(ids)]
                           IN  Outcome("Ok", taken, EmptyBag,
                                       IF is_old_node THEN <<StorageUpdate(updated)>>
                                       ELSE <<StorageInsert(updated)>>)

\* faulty variant: the share is read and no message is sent
move_share_sends_nothing(n, share_destination) ==
    IF key_share(n) = None THEN None ELSE Some(EmptyBag)

\* faulty variant: the message is built without the secret share of the sender
move_share_without_secret(n, share_destination) ==
    IF key_share(n) = None THEN None
    ELSE Some(SetToBag({ShareMove(n, share_destination,
                          [Unwrap(key_share(n)) EXCEPT !.secret_share = 0])}))

\* move_share: the messages it sends, or None when the expect on key_share fails
move_share(n, share_destination) ==
    IF key_share(n) = None THEN None
    ELSE Some(SetToBag({ShareMove(n, share_destination, Unwrap(key_share(n)))}))

\* faulty variant: the node itself stays in the set
init_confirmations_with_self(n, d, id_numbers, shares_to_move) ==
    d.init_confirmations_to_receive \cup Keys(id_numbers) \cup Values(shares_to_move)

\* the nodes initialize waits for: the old nodes and the destinations, but itself
init_confirmations(n, d, id_numbers, shares_to_move) ==
    (d.init_confirmations_to_receive \cup Keys(id_numbers) \cup Values(shares_to_move))
        \ {n}

initialize(n, shares_to_move) ==
    LET d == data[n]
        old_key_share == key_share(n)
        check == check_shares_to_move(n, shares_to_move, id_numbers_of(old_key_share))
    IN  IF old_key_share = None THEN Rejected("Panic", d)
        ELSE IF check # "Ok" THEN Rejected(check, d)
        ELSE IF d.state # WaitingForInitialization
             THEN Rejected("InvalidStateForRequest", d)
        ELSE LET stm == Extend(d.shares_to_move, shares_to_move)
                 init == init_confirmations(n, d, Unwrap(old_key_share).id_numbers,
                                            shares_to_move)
                 d2 == [d EXCEPT
                          !.state = WaitingForInitializationConfirm,
                          !.shares_to_move = stm,
                          !.move_confirmations_to_receive = @ \cup Values(stm),
                          !.init_confirmations_to_receive = init]
             IN  Outcome("Ok", d2,
                         SetToBag({InitializeShareMoveSession(n, node, shares_to_move) :
                                      node \in init}),
                         <<>>)

\* faulty variant: a proposal is accepted from any sender
on_initialize_session_from_anyone(n, sender, message) ==
    LET d == data[n]
        shares_to_move == message.shares_to_move
        check == check_shares_to_move(n, shares_to_move, id_numbers_of(key_share(n)))
    IN  IF check # "Ok" THEN Rejected(check, d)
        ELSE IF n \in Keys(shares_to_move) /\ key_share(n) = None
             THEN Rejected("InvalidMessage", d)
        ELSE IF n \notin Keys(shares_to_move) /\ n \in Values(shares_to_move)
                /\ key_share(n) # None
             THEN Rejected("InvalidMessage", d)
        ELSE IF d.state # WaitingForInitialization
             THEN Rejected("InvalidStateForRequest", d)
        ELSE LET stm == Extend(d.shares_to_move, shares_to_move)
                 d2 == [d EXCEPT
                          !.state = WaitingForMoveConfirmation,
                          !.shares_to_move = stm,
                          !.move_confirmations_to_receive = @ \cup Values(stm)]
             IN  Outcome("Ok", d2,
                         SetToBag({ConfirmShareMoveInitialization(n, sender)}), <<>>)

on_initialize_session(n, sender, message) ==
    LET d == data[n]
        shares_to_move == message.shares_to_move
        check == check_shares_to_move(n, shares_to_move, id_numbers_of(key_share(n)))
    IN  IF sender # master_node_id THEN Rejected("InvalidMessage", d)
        ELSE IF check # "Ok" THEN Rejected(check, d)
        ELSE IF n \in Keys(shares_to_move) /\ key_share(n) = None
             THEN Rejected("InvalidMessage", d)
        ELSE IF n \notin Keys(shares_to_move) /\ n \in Values(shares_to_move)
                /\ key_share(n) # None
             THEN Rejected("InvalidMessage", d)
        ELSE IF d.state # WaitingForInitialization
             THEN Rejected("InvalidStateForRequest", d)
        ELSE LET stm == Extend(d.shares_to_move, shares_to_move)
                 d2 == [d EXCEPT
                          !.state = WaitingForMoveConfirmation,
                          !.shares_to_move = stm,
                          !.move_confirmations_to_receive = @ \cup Values(stm)]
             IN  Outcome("Ok", d2,
                         SetToBag({ConfirmShareMoveInitialization(n, sender)}), <<>>)

\* faulty variant: the sender is looked up before the state is checked
on_confirm_initialization_sender_first(n, sender, message) ==
    LET d == data[n]
        removed == [d EXCEPT !.init_confirmations_to_receive = @ \ {sender}]
    IN  IF n # master_node_id THEN Rejected("InvalidMessage", d)
        ELSE IF sender \notin d.init_confirmations_to_receive
             THEN Rejected("InvalidMessage", d)
        ELSE IF d.state # WaitingForInitializationConfirm
             THEN Rejected("InvalidStateForRequest", d)
        ELSE IF removed.init_confirmations_to_receive # {}
             THEN Outcome("Ok", removed, EmptyBag, <<>>)
        ELSE LET d2 == [removed EXCEPT !.state = WaitingForMoveConfirmation]
                 requests == SetToBag({ShareMoveRequest(n, share_source) :
                                 share_source \in Keys(d2.shares_to_move) \ {n}})
                 moved == IF n \in Keys(d2.shares_to_move)
                          THEN move_share(n, d2.shares_to_move[n]) ELSE Some(EmptyBag)
             IN  IF moved = None THEN Outcome("Panic", d2, requests, <<>>)
                 ELSE Outcome("Ok", d2, requests (+) Unwrap(moved), <<>>)

\* faulty variant: the master moves on with the first confirmation it accepts
on_confirm_initialization_impatient(n, sender, message) ==
    LET d == data[n]
        removed == [d EXCEPT !.init_confirmations_to_receive = @ \ {sender}]
    IN  IF n # master_node_id THEN Rejected("InvalidMessage", d)
        ELSE IF d.state # WaitingForInitializationConfirm
             THEN Rejected("InvalidStateForRequest", d)
        ELSE IF sender \notin d.init_confirmations_to_receive
             THEN Rejected("InvalidMessage", d)
        ELSE LET d2 == [removed EXCEPT !.state = WaitingForMoveConfirmation]
                 requests == SetToBag({ShareMoveRequest(n, share_source) :
                                 share_source \in Keys(d2.shares_to_move) \ {n}})
                 moved == IF n \in Keys(d2.shares_to_move)
                          THEN move_share(n, d2.shares_to_move[n]) ELSE Some(EmptyBag)
             IN  IF moved = None THEN Outcome("Panic", d2, requests, <<>>)
                 ELSE Outcome("Ok", d2, requests (+) Unwrap(moved), <<>>)

on_confirm_initialization(n, sender, message) ==
    LET d == data[n]
        removed == [d EXCEPT !.init_confirmations_to_receive = @ \ {sender}]
    IN  IF n # master_node_id THEN Rejected("InvalidMessage", d)
        ELSE IF d.state # WaitingForInitializationConfirm
             THEN Rejected("InvalidStateForRequest", d)
        ELSE IF sender \notin d.init_confirmations_to_receive
             THEN Rejected("InvalidMessage", d)
        ELSE IF removed.init_confirmations_to_receive # {}
             THEN Outcome("Ok", removed, EmptyBag, <<>>)
        ELSE LET d2 == [removed EXCEPT !.state = WaitingForMoveConfirmation]
                 requests == SetToBag({ShareMoveRequest(n, share_source) :
                                 share_source \in Keys(d2.shares_to_move) \ {n}})
                 moved == IF n \in Keys(d2.shares_to_move)
                          THEN move_share(n, d2.shares_to_move[n])
                          ELSE Some(EmptyBag)
             IN  IF moved = None THEN Outcome("Panic", d2, requests, <<>>)
                 ELSE Outcome("Ok", d2, requests (+) Unwrap(moved), <<>>)

on_share_move_request(n, sender, message) ==
    LET d == data[n]
    IN  IF sender # master_node_id THEN Rejected("InvalidMessage", d)
        ELSE IF d.state # WaitingForMoveConfirmation
             THEN Rejected("InvalidStateForRequest", d)
        ELSE IF n \notin Keys(d.shares_to_move) THEN Rejected("InvalidMessage", d)
        ELSE LET moved == move_share(n, d.shares_to_move[n])
             IN  IF moved = None THEN Rejected("Panic", d)
                 ELSE Outcome("Ok", d, Unwrap(moved), <<>>)

\* faulty variant: the share is recorded before the sender is checked
on_share_move_stores_first(n, sender, message) ==
    LET d == data[n]
        share == Unwrap(message.share)
        d2 == [d EXCEPT !.move_confirmations_to_receive = @ \ {n},
                        !.received_key_share = Some(share)]
    IN  IF d.state # WaitingForMoveConfirmation THEN Rejected("InvalidStateForRequest", d)
        ELSE IF ~(sender \in Keys(d.shares_to_move) /\ d.shares_to_move[sender] = n)
             THEN Rejected("InvalidMessage", d2)
        ELSE LET all_nodes_set == Values(d2.shares_to_move) \cup Keys(share.id_numbers)
                 confirms == SetToBag({ShareMoveConfirm(n, node) : node \in all_nodes_set \ {n}})
             IN  IF d2.move_confirmations_to_receive = {}
                 THEN LET c == complete_session(n, d2)
                      IN  Outcome(c.result, c.data, confirms, c.stores)
                 ELSE Outcome("Ok", d2, confirms, <<>>)

\* faulty variant: the receiver of the share confirms to itself as well
on_share_move_confirms_to_self(n, sender, message) ==
    LET d == data[n]
    IN  IF d.state # WaitingForMoveConfirmation THEN Rejected("InvalidStateForRequest", d)
        ELSE IF ~(sender \in Keys(d.shares_to_move) /\ d.shares_to_move[sender] = n)
             THEN Rejected("InvalidMessage", d)
        ELSE LET share == Unwrap(message.share)
                 d2 == [d EXCEPT !.move_confirmations_to_receive = @ \ {n},
                                 !.received_key_share = Some(share)]
                 all_nodes_set == Values(d2.shares_to_move) \cup Keys(share.id_numbers)
                 confirms == SetToBag({ShareMoveConfirm(n, node) : node \in all_nodes_set})
             IN  IF d2.move_confirmations_to_receive = {}
                 THEN LET c == complete_session(n, d2)
                      IN  Outcome(c.result, c.data, confirms, c.stores)
                 ELSE Outcome("Ok", d2, confirms, <<>>)

\* faulty variant: any source of the map is accepted, whatever its destination
on_share_move_from_any_source(n, sender, message) ==
    LET d == data[n]
    IN  IF d.state # WaitingForMoveConfirmation THEN Rejected("InvalidStateForRequest", d)
        ELSE IF sender \notin Keys(d.shares_to_move) THEN Rejected("InvalidMessage", d)
        ELSE LET share == Unwrap(message.share)
                 d2 == [d EXCEPT !.move_confirmations_to_receive = @ \ {n},
                                 !.received_key_share = Some(share)]
                 all_nodes_set == Values(d2.shares_to_move) \cup Keys(share.id_numbers)
                 confirms == SetToBag({ShareMoveConfirm(n, node) : node \in all_nodes_set \ {n}})
             IN  IF d2.move_confirmations_to_receive = {}
                 THEN LET c == complete_session(n, d2)
                      IN  Outcome(c.result, c.data, confirms, c.stores)
                 ELSE Outcome("Ok", d2, confirms, <<>>)

on_share_move(n, sender, message) ==
    LET d == data[n]
    IN  IF d.state # WaitingForMoveConfirmation
        THEN Rejected("InvalidStateForRequest", d)
        ELSE IF ~(sender \in Keys(d.shares_to_move) /\ d.shares_to_move[sender] = n)
             THEN Rejected("InvalidMessage", d)
        ELSE LET share == Unwrap(message.share)
                 d2 == [d EXCEPT
                          !.move_confirmations_to_receive = @ \ {n},
                          !.received_key_share = Some(share)]
                 all_nodes_set == Values(d2.shares_to_move) \cup Keys(share.id_numbers)
                 confirms == SetToBag({ShareMoveConfirm(n, node) :
                                          node \in all_nodes_set \ {n}})
             IN  IF d2.move_confirmations_to_receive = {}
                 THEN LET c == complete_session(n, d2)
                      IN  Outcome(c.result, c.data, confirms, c.stores)
                 ELSE Outcome("Ok", d2, confirms, <<>>)

\* faulty variant: the session completes with the first confirmation it accepts
on_share_move_confirmation_hasty(n, sender, message) ==
    LET d == data[n]
        d2 == [d EXCEPT !.move_confirmations_to_receive = @ \ {sender}]
    IN  IF d.state # WaitingForMoveConfirmation
        THEN Rejected("InvalidStateForRequest", d)
        ELSE IF sender \notin d.move_confirmations_to_receive
             THEN Rejected("InvalidMessage", d)
        ELSE complete_session(n, d2)

\* faulty variant: a confirmation is counted whether or not its sender is awaited
on_share_move_confirmation_uncounted(n, sender, message) ==
    LET d == data[n]
        d2 == [d EXCEPT !.move_confirmations_to_receive = @ \ {sender}]
    IN  IF d.state # WaitingForMoveConfirmation
        THEN Rejected("InvalidStateForRequest", d)
        ELSE IF d2.move_confirmations_to_receive = {}
             THEN complete_session(n, d2)
        ELSE Outcome("Ok", d2, EmptyBag, <<>>)

on_share_move_confirmation(n, sender, message) ==
    LET d == data[n]
        d2 == [d EXCEPT !.move_confirmations_to_receive = @ \ {sender}]
    IN  IF d.state # WaitingForMoveConfirmation
        THEN Rejected("InvalidStateForRequest", d)
        ELSE IF sender \notin d.move_confirmations_to_receive
             THEN Rejected("InvalidMessage", d)
        ELSE IF d2.move_confirmations_to_receive = {}
             THEN complete_session(n, d2)
        ELSE Outcome("Ok", d2, EmptyBag, <<>>)

\* faulty variant: the error ends the session only while it waits for moves
on_session_error_while_moving(n, sender, message) ==
    IF data[n].state = WaitingForMoveConfirmation
    THEN Outcome("Ok", [data[n] EXCEPT !.state = Finished], EmptyBag, <<>>)
    ELSE Outcome("Ok", data[n], EmptyBag, <<>>)

on_session_error(n, sender, message) ==
    Outcome("Ok", [data[n] EXCEPT !.state = Finished], EmptyBag, <<>>)

\* the match of process_message over the message's kind
dispatch(n, sender, message) ==
    CASE message.kind = "InitializeShareMoveSession" ->
            on_initialize_session(n, sender, message)
      [] message.kind = "ConfirmShareMoveInitialization" ->
            on_confirm_initialization(n, sender, message)
      [] message.kind = "ShareMoveRequest" ->
            on_share_move_request(n, sender, message)
      [] message.kind = "ShareMove" ->
            on_share_move(n, sender, message)
      [] message.kind = "ShareMoveConfirm" ->
            on_share_move_confirmation(n, sender, message)
      [] message.kind = "ShareMoveError" ->
            on_session_error(n, sender, message)

\* faulty variant: the nonce of the message is not compared
process_message_any_nonce(n, sender, message) == dispatch(n, sender, message)

process_message(n, sender, message) ==
    IF nonce # message.session_nonce THEN Rejected("ReplayProtection", data[n])
    ELSE dispatch(n, sender, message)

\* ClusterSession::is_finished
is_finished(n) == data[n].state = Finished


(***************************************************************************)
(* The state machine.  One step is one call of initialize or               *)
(* process_message on one node's session, made under the session's lock.   *)
(***************************************************************************)
\* DummyKeyStorage: remove drops the record, update and insert store it
apply_storage(stored, stores) ==
    IF stores = <<>> THEN stored ELSE stores[Len(stores)].share

StorageOps(stores) == [i \in 1..Len(stores) |-> stores[i].op]

\* the input of an initialize call, in the shape of a message
InitializeCall(n, shares_to_move) ==
    Message("initialize", n, n, nonce, shares_to_move, None)

NoCall ==
    [node |-> 0, message |-> Message("none", 0, 0, nonce, EmptyMap, None),
     result |-> "none", sends |-> EmptyBag, stores |-> <<>>]

Confirmations == {"ConfirmShareMoveInitialization", "ShareMoveConfirm"}

\* a thread that is in no call
Threads == 1..NumThreads
IdleThread ==
    [pc |-> "idle", node |-> 0, message |-> NoCall.message,
     outcome |-> [result |-> "none", data |-> NewSessionData,
                  sends |-> EmptyBag, stores |-> <<>>]]

\* node n's session returns outcome o from a call with input message;
\* delivered is the bag of messages the call took from the network
Call(n, message, o, delivered) ==
    /\ data' = [data EXCEPT ![n] = o.data]
    /\ key_storage' = [key_storage EXCEPT ![n] = apply_storage(@, o.stores)]
    /\ storage_calls' = [storage_calls EXCEPT ![n] = @ \o StorageOps(o.stores)]
    /\ network' = (network (-) delivered) (+) o.sends
    /\ last' = [node |-> n, message |-> message, result |-> o.result,
                sends |-> o.sends, stores |-> o.stores]
    /\ accepted' = IF o.result = "Ok" /\ message.kind \in Confirmations
                   THEN accepted \cup {<<n, message.kind, message.from>>}
                   ELSE accepted
    /\ UNCHANGED threads

Init ==
    /\ data = [n \in Nodes |-> NewSessionData]
    /\ key_storage = [n \in Nodes |-> key_share(n)]
    /\ storage_calls = [n \in Nodes |-> <<>>]
    /\ network = EmptyBag
    /\ last = NoCall
    /\ accepted = {}
    /\ initialize_called = FALSE
    /\ extra_calls = 0
    /\ threads = [t \in Threads |-> IdleThread]

\* MessageLoop::run unwraps the result of every call: the run goes on while
\* the calls return Ok, and ends with the first call that returns an error
Running == last.result \in {"none", "Ok"}

\* the administrator starts the session on the master, once
Initialize ==
    /\ Running
    /\ ~initialize_called
    /\ \E shares_to_move \in Mappings :
        /\ Call(master_node_id, InitializeCall(master_node_id, shares_to_move),
                initialize(master_node_id, shares_to_move), EmptyBag)
        /\ initialize_called' = TRUE
        /\ UNCHANGED extra_calls

\* the transport delivers a message to its receiver's session
Deliver ==
    /\ Running
    /\ \E message \in BagToSet(network) :
        /\ Call(message.to, message,
                process_message(message.to, message.from, message),
                SetToBag({message}))
        /\ UNCHANGED <<initialize_called, extra_calls>>

\* debug_assert_eq!(self_node_id, master_node_id): a debug build panics on a
\* node that is not the master, a release build runs the call
initialize_outcomes(n, shares_to_move) ==
    IF n = master_node_id THEN {initialize(n, shares_to_move)}
    ELSE {Rejected("Panic", data[n]), initialize(n, shares_to_move)}

\* the maps an extra call or a forged proposal offers: at most
\* MaxForgedMoves entries, or the map the master has recorded
SmallMappings == {m \in Mappings : Cardinality(Keys(m)) <= MaxForgedMoves}
ForgedMappings == SmallMappings \cup {data[master_node_id].shares_to_move}

\* initialize called again on the master, or called on another node
ExtraInitialize ==
    /\ Running
    /\ extra_calls < MaxExtraCalls
    /\ \E n \in Nodes, shares_to_move \in ForgedMappings :
        /\ \E o \in initialize_outcomes(n, shares_to_move) :
              Call(n, InitializeCall(n, shares_to_move), o, EmptyBag)
        /\ extra_calls' = extra_calls + 1
        /\ UNCHANGED initialize_called

\* the map of a forged proposal: on_initialize_session rejects a proposal
\* that does not come from the master before it reads the map, and
\* process_message one with a wrong nonce before it reads anything
ForgedProposalMappings(from, n) ==
    IF from = master_node_id /\ n = nonce THEN ForgedMappings
    ELSE {data[master_node_id].shares_to_move}

\* the bodies a forged message of a kind may carry
ForgedBodies(kind, from, n) ==
    CASE kind = "InitializeShareMoveSession" ->
            {<<stm, None>> : stm \in ForgedProposalMappings(from, n)}
      [] kind = "ShareMove" ->
            {<<EmptyMap, IF key_share(from) # None THEN key_share(from)
                         ELSE key_share(master_node_id)>>}
      [] OTHER -> {<<EmptyMap, None>>}

\* process_message called with a message that is not in flight: a repeated
\* or forged message of any kind, from any other node, with a right or a
\* wrong nonce
Forge ==
    /\ Running
    /\ extra_calls < MaxExtraCalls
    /\ \E kind \in MessageKinds, to \in Nodes, n \in {nonce, nonce + 1} :
      \E from \in Nodes \ {to} :
        \E body \in ForgedBodies(kind, from, n) :
          /\ Call(to, Message(kind, from, to, n, body[1], body[2]),
                  process_message(to, from, Message(kind, from, to, n, body[1], body[2])),
                  EmptyBag)
          /\ extra_calls' = extra_calls + 1
          /\ UNCHANGED initialize_called

Next == Initialize \/ Deliver \/ ExtraInitialize \/ Forge
Spec == Init /\ [][Next]_vars

\* a run of the protocol alone: one initialize on the master, every message
\* delivered once, in any order
ProtocolNext == Initialize \/ Deliver
ProtocolSpec == Init /\ [][ProtocolNext]_vars


(***************************************************************************)
(* Properties of a run of the protocol alone (ProtocolSpec).               *)
(***************************************************************************)
\* the map the master recorded, and the nodes of the session
Agreed == data[master_node_id].shares_to_move
Participants == OldNodes \cup Values(Agreed)
\* initialize succeeded on the master and every message sent was delivered
Completed ==
    /\ initialize_called
    /\ data[master_node_id].state # WaitingForInitialization
    /\ network = EmptyBag
SameMaterial(stored, original) ==
    /\ stored # None
    /\ Unwrap(stored).threshold = original.threshold
    /\ Unwrap(stored).polynom1 = original.polynom1
    /\ Unwrap(stored).secret_share = original.secret_share

\* C1: after initialize with a valid map and the delivery of every message,
\* no source has a record in its storage, every destination has a record
\* with the threshold, commitment and secret share of its source's original
\* record, and every other old node has its own threshold, commitment and
\* secret share.
C1_SharesRelocated ==
    Completed =>
        /\ \A s \in Keys(Agreed) : key_storage[s] = None
        /\ \A s \in Keys(Agreed) : SameMaterial(key_storage[Agreed[s]], OriginalShare(s))
        /\ \A h \in OldNodes \ Keys(Agreed) : SameMaterial(key_storage[h], OriginalShare(h))

C1_Witness ==
    /\ Completed
    /\ Cardinality(Keys(Agreed)) = 2
    /\ \A s \in Keys(Agreed) : key_storage[Agreed[s]] # None

\* the id_numbers map the move must leave: the point of s under Agreed[s]
RelocatedIdNumbers ==
    [k \in (OldNodes \ Keys(Agreed)) \cup Values(Agreed) |->
        IF k \in OldNodes THEN IdNumber(k)
        ELSE IdNumber(CHOOSE s \in Keys(Agreed) : Agreed[s] = k)]

\* C2: after the protocol has completed, every node that holds a record
\* stores the same id_numbers map: the original one with each source key
\* replaced by its destination and the evaluation point kept, so that every
\* original evaluation point is owned by exactly one node.
C2_IdNumbersRelabelled ==
    Completed =>
        /\ \A n \in Nodes : key_storage[n] # None =>
              Unwrap(key_storage[n]).id_numbers = RelocatedIdNumbers
        /\ \A n \in Nodes : key_storage[n] # None =>
              LET ids == Unwrap(key_storage[n]).id_numbers
              IN  /\ Keys(ids) \cap Keys(Agreed) = {}
                  /\ \A s \in Keys(Agreed) : ids[Agreed[s]] = IdNumber(s)
                  /\ \A h \in OldNodes \ Keys(Agreed) : ids[h] = IdNumber(h)
                  /\ \A p \in {IdNumber(h) : h \in OldNodes} :
                        Cardinality({k \in Keys(ids) : ids[k] = p}) = 1

C2_Witness ==
    /\ Completed
    /\ Cardinality(Keys(Agreed)) = 2
    /\ master_node_id \in Keys(Agreed)
    /\ \A n \in Participants \ Keys(Agreed) : key_storage[n] # None

\* C3: after initialize with a valid map and the delivery of every message,
\* the session of every participating node is in the state Finished.
C3_AllFinished ==
    Completed => \A n \in Participants : is_finished(n)


(***************************************************************************)
(* Properties of single calls (Spec): last' is the call a step makes, the  *)
(* unprimed variables are the state the call found.                        *)
(***************************************************************************)
IsProcessMessage(call) == call.message.kind \in MessageKinds
IsInitialize(call) == call.message.kind = "initialize"
\* the call sent nothing and made no storage call
NoEffect(call) == call.sends = EmptyBag /\ call.stores = <<>>
\* the step added no message to the network and left every storage alone
NothingSentOrStored ==
    /\ \A m \in BagToSet(network') : CopiesIn(m, network') <= CopiesIn(m, network)
    /\ key_storage' = key_storage
    /\ storage_calls' = storage_calls

\* C4: a session makes at most one key-storage mutation in its lifetime,
\* whatever calls of initialize and process_message it receives.
C4_AtMostOneStorageMutation ==
    \A n \in Nodes : Len(storage_calls[n]) <= 1

\* C5: process_message with a message of any kind whose nonce differs from
\* the session's returns ReplayProtection, leaves the session data and the
\* storage unchanged and sends nothing.
C5_NonceMismatchRejected ==
    [][(IsProcessMessage(last') /\ last'.message.session_nonce # nonce) =>
          /\ last'.result = "ReplayProtection"
          /\ data' = data
          /\ NoEffect(last')
          /\ NothingSentOrStored]_vars

C5_Witness ==
    /\ last.message.kind = "ShareMoveError"
    /\ last.message.session_nonce # nonce
    /\ last.result = "ReplayProtection"
    /\ data[last.node].state = WaitingForMoveConfirmation

\* C6: an initialization confirmation or a move confirmation from a sender
\* whose confirmation of that kind this session already accepted returns an
\* error, leaves both outstanding sets and the state unchanged, sends
\* nothing and makes no storage call.
C6_SecondConfirmationRejected ==
    [][(<<last'.node, last'.message.kind, last'.message.from>> \in accepted) =>
          /\ last'.result \in {"InvalidMessage", "InvalidStateForRequest",
                               "ReplayProtection"}
          /\ data' = data
          /\ NoEffect(last')
          /\ NothingSentOrStored]_vars

C6_Witness ==
    /\ <<last.node, last.message.kind, last.message.from>> \in accepted
    /\ last.message.kind = "ShareMoveConfirm"
    /\ last.result = "InvalidMessage"
    /\ data[last.node].move_confirmations_to_receive # {}

\* C7: a ShareMoveError message with the right nonce, from any sender, puts
\* the session that processes it in the state Finished; a session in the
\* state Finished stays there, and no call on it sends a message or changes
\* the storage.
C7_ErrorFinishesSession ==
    [][/\ (last'.message.kind = "ShareMoveError" /\ last'.message.session_nonce = nonce)
            => data'[last'.node].state = Finished
       /\ \A n \in Nodes : is_finished(n) =>
            /\ is_finished(n)'
            /\ key_storage'[n] = key_storage[n]
            /\ storage_calls'[n] = storage_calls[n]
            /\ last'.node = n => NoEffect(last')]_vars

C7_Witness ==
    /\ last.node \in Nodes
    /\ is_finished(last.node)
    /\ last.message.kind = "ShareMove"
    /\ last.result = "InvalidStateForRequest"
    /\ key_storage[last.node] = None

\* C8: initialize on the master with a map in which two sources have the
\* same destination returns InvalidNodesConfiguration and sends nothing; the
\* session data is unchanged, so a session in WaitingForInitialization stays
\* there with empty outstanding sets and an empty recorded map.
C8_SharedDestinationRejected ==
    [][(IsInitialize(last') /\ last'.node = master_node_id
          /\ Cardinality(Values(last'.message.shares_to_move))
                < Cardinality(Keys(last'.message.shares_to_move))) =>
          /\ last'.result = "InvalidNodesConfiguration"
          /\ NoEffect(last')
          /\ NothingSentOrStored
          /\ data' = data
          /\ data[master_node_id].state = WaitingForInitialization
                => data'[master_node_id] = NewSessionData]_vars

C8_Witness ==
    /\ IsInitialize(last)
    /\ last.node = master_node_id
    /\ Keys(last.message.shares_to_move) = {2, 3}
    /\ Values(last.message.shares_to_move) = {4}
    /\ last.result = "InvalidNodesConfiguration"
    /\ data[master_node_id] = NewSessionData

\* C9: initialize on a node that is not the master is rejected: it sends
\* nothing and leaves the session state and the outstanding sets unchanged.
C9_NonMasterInitializeRejected ==
    [][(IsInitialize(last') /\ last'.node # master_node_id) =>
          /\ last'.result # "Ok"
          /\ NoEffect(last')
          /\ data' = data]_vars

\* C10: a successful initialize on the master in WaitingForInitialization
\* records the map, sets the init-outstanding set to the keys of the
\* master's id_numbers and the destinations, without the master, sets the
\* move-outstanding set to the destinations, moves to
\* WaitingForInitializationConfirm, and sends one
\* InitializeShareMoveSession with the map to each node of the
\* init-outstanding set and nothing else.
C10_InitializeEffect ==
    [][(IsInitialize(last') /\ last'.node = master_node_id /\ last'.result = "Ok"
          /\ data[master_node_id].state = WaitingForInitialization) =>
          LET m == last'.message.shares_to_move
              d == data'[master_node_id]
              awaited == (Keys(OriginalShare(master_node_id).id_numbers) \cup Values(m))
                            \ {master_node_id}
          IN  /\ d.shares_to_move = m
              /\ d.init_confirmations_to_receive = awaited
              /\ d.move_confirmations_to_receive = Values(m)
              /\ d.state = WaitingForInitializationConfirm
              /\ d.received_key_share = None
              /\ \A x \in awaited :
                    CopiesIn(InitializeShareMoveSession(master_node_id, x, m),
                             last'.sends) = 1
              /\ \A sent \in BagToSet(last'.sends) :
                    /\ sent.kind = "InitializeShareMoveSession"
                    /\ sent.to \in awaited
                    /\ sent.shares_to_move = m
              /\ BagCardinality(last'.sends) = Cardinality(awaited)
              /\ network' = network (+) last'.sends
              /\ \A n \in Nodes \ {master_node_id} : data'[n] = data[n]]_vars

C10_Witness ==
    /\ IsInitialize(last)
    /\ last.node = master_node_id
    /\ last.result = "Ok"
    /\ Cardinality(Keys(last.message.shares_to_move)) = 2
    /\ master_node_id \in Keys(last.message.shares_to_move)
    /\ BagCardinality(last.sends) = 4


(***************************************************************************)
(* check_shares_to_move on its own (CheckSpec): one step applies it to a   *)
(* checking node, a map and a view, and records the call in last.  The     *)
(* view is None or the id_numbers map of the checking node's key share.    *)
(***************************************************************************)
Views == {None} \cup {Some([k \in V |-> IdNumber(k)]) : V \in SUBSET Nodes}

\* the input of a check_shares_to_move call, in the shape of a message; the
\* view travels as the id_numbers of a key share
CheckCall(self_node_id, shares_to_move, view) ==
    Message("check_shares_to_move", self_node_id, self_node_id, nonce, shares_to_move,
            IF view = None THEN None
            ELSE Some([OriginalShare(self_node_id) EXCEPT !.id_numbers = Unwrap(view)]))

Check ==
    /\ last = NoCall
    /\ \E self_node_id \in Nodes, shares_to_move \in Mappings, view \in Views :
          last' = [node |-> self_node_id,
                   message |-> CheckCall(self_node_id, shares_to_move, view),
                   result |-> check_shares_to_move(self_node_id, shares_to_move, view),
                   sends |-> EmptyBag, stores |-> <<>>]
    /\ UNCHANGED <<data, key_storage, storage_calls, network, accepted,
                   initialize_called, extra_calls, threads>>

CheckSpec == Init /\ [][Check]_vars

IsCheck(call) == call.message.kind = "check_shares_to_move"
PairwiseDistinct(m) == \A a, b \in Keys(m) : a # b => m[a] # m[b]
\* the rule of the branch the routine takes for the view
BranchRule(self_node_id, m, view) ==
    IF view # None
    THEN /\ Keys(m) \subseteq Keys(Unwrap(view))
         /\ Values(m) \cap Keys(Unwrap(view)) = {}
    ELSE /\ self_node_id \notin Keys(m)
         /\ self_node_id \in Values(m)

\* C11: check_shares_to_move accepts a map exactly when it is non-empty, its
\* values are pairwise distinct and, with a view, every key is in the view
\* and no value is, or, without a view, the checking node is a value and not
\* a key.  An empty map yields InvalidMessage; with a view, a key outside it
\* or a value inside it yields InvalidNodesConfiguration; without a view, a
\* violation of its rule yields InvalidMessage; and in either branch a map
\* that passed the branch's rule and has two equal values yields
\* InvalidNodesConfiguration.
C11_CheckSharesToMove ==
    IsCheck(last) =>
        LET m == last.message.shares_to_move
            self_node_id == last.node
            view == id_numbers_of(last.message.share)
        IN  /\ last.result = "Ok" <=>
                  (Keys(m) # {} /\ PairwiseDistinct(m) /\ BranchRule(self_node_id, m, view))
            /\ Keys(m) = {} => last.result = "InvalidMessage"
            /\ (Keys(m) # {} /\ view # None /\ ~BranchRule(self_node_id, m, view))
                  => last.result = "InvalidNodesConfiguration"
            /\ (view = None /\ ~BranchRule(self_node_id, m, view))
                  => last.result = "InvalidMessage"
            /\ (Keys(m) # {} /\ BranchRule(self_node_id, m, view) /\ ~PairwiseDistinct(m))
                  => last.result = "InvalidNodesConfiguration"

C11_Witness ==
    /\ IsCheck(last)
    /\ last.message.share = None
    /\ last.node = 4
    /\ Keys(last.message.shares_to_move) = {2, 3}
    /\ Values(last.message.shares_to_move) = {4}
    /\ last.result = "InvalidNodesConfiguration"


(***************************************************************************)
(* Further properties of single calls (Spec).                              *)
(***************************************************************************)
\* the recorded map of node n assigns the share of sender to n
MapsToSelf(n, sender) ==
    /\ sender \in Keys(data[n].shares_to_move)
    /\ data[n].shares_to_move[sender] = n
\* a node with session data d and storage content stored holds the record
\* share, as its received share or in its storage
HoldsDelivered(d, stored, share) ==
    \/ d.received_key_share = Some(share)
    \/ /\ stored # None
       /\ Unwrap(stored).secret_share = share.secret_share

\* C12: a ShareMove is accepted, and changes the session or the storage of
\* its receiver, only when the receiver is in WaitingForMoveConfirmation and
\* its recorded map assigns the sender's share to it; the receiver then has
\* left its own move-outstanding set and holds the delivered record.  From
\* any other sender a ShareMove changes nothing, sends nothing and returns an
\* error, which is InvalidMessage when the receiver is in
\* WaitingForMoveConfirmation.
C12_ShareMoveOnlyFromOwnSource ==
    [][(last'.message.kind = "ShareMove" /\ last'.message.session_nonce = nonce) =>
          LET n == last'.node
              sender == last'.message.from
              expected == data[n].state = WaitingForMoveConfirmation /\ MapsToSelf(n, sender)
          IN  /\ (last'.result = "Ok" \/ data' # data \/ key_storage' # key_storage)
                    => expected
              /\ (expected /\ last'.result = "Ok") =>
                    /\ n \notin data'[n].move_confirmations_to_receive
                    /\ HoldsDelivered(data'[n], key_storage'[n], Unwrap(last'.message.share))
              /\ ~expected =>
                    /\ last'.result \in {"InvalidMessage", "InvalidStateForRequest"}
                    /\ data' = data
                    /\ NoEffect(last')
                    /\ NothingSentOrStored
              /\ (data[n].state = WaitingForMoveConfirmation /\ ~MapsToSelf(n, sender))
                    => last'.result = "InvalidMessage"]_vars

C12_Witness ==
    /\ last.message.kind = "ShareMove"
    /\ last.message.session_nonce = nonce
    /\ last.result = "InvalidMessage"
    /\ data[last.node].state = WaitingForMoveConfirmation
    /\ last.message.from \in Keys(data[last.node].shares_to_move)
    /\ data[last.node].shares_to_move[last.message.from] # last.node
    /\ last.node \in Values(data[last.node].shares_to_move)


(***************************************************************************)
(* Further properties of a run of the protocol alone (ProtocolSpec).       *)
(***************************************************************************)
IsConfirmInitialization(call) == call.message.kind = "ConfirmShareMoveInitialization"
\* the call handed a ShareMoveRequest or a ShareMove to the transport
SendsMove(call) ==
    \E sent \in BagToSet(call.sends) : sent.kind \in {"ShareMoveRequest", "ShareMove"}
\* the nodes whose initialization confirmation the master waits for
Awaited == (OldNodes \cup Values(Agreed)) \ {master_node_id}
\* what the master sends when the last confirmation arrives
MoveOrders ==
    SetToBag({ShareMoveRequest(master_node_id, s) : s \in Keys(Agreed) \ {master_node_id}}
             \cup (IF master_node_id \in Keys(Agreed)
                   THEN {ShareMove(master_node_id, Agreed[master_node_id],
                                   OriginalShare(master_node_id))}
                   ELSE {}))

\* C13: the master sends no ShareMoveRequest and no ShareMove and stays in
\* WaitingForInitializationConfirm until it has accepted an initialization
\* confirmation from every node of the init-outstanding set.  A confirmation
\* accepted while others are outstanding returns Ok and only removes its
\* sender from the set.  The last one moves the master to
\* WaitingForMoveConfirmation and sends exactly one ShareMoveRequest to every
\* source other than the master and, if the master is a source, its own
\* share to its destination.
C13_MasterWaitsForConfirmations ==
    [][LET d == data[master_node_id]
           d2 == data'[master_node_id]
           sender == last'.message.from
           accepts == /\ last'.node = master_node_id
                      /\ IsConfirmInitialization(last')
                      /\ last'.result = "Ok"
       IN  /\ (d.state \in {WaitingForInitialization, WaitingForInitializationConfirm}
                 /\ last'.node = master_node_id /\ SendsMove(last'))
                 => (accepts /\ d.init_confirmations_to_receive = {sender})
           /\ (d.state = WaitingForInitializationConfirm
                 /\ d2.state # WaitingForInitializationConfirm)
                 => /\ accepts
                    /\ d.init_confirmations_to_receive = {sender}
                    /\ \A x \in Awaited :
                          <<master_node_id, "ConfirmShareMoveInitialization", x>> \in accepted'
           /\ accepts =>
                 /\ d.state = WaitingForInitializationConfirm
                 /\ sender \in d.init_confirmations_to_receive
                 /\ IF d.init_confirmations_to_receive # {sender}
                    THEN /\ d2 = [d EXCEPT !.init_confirmations_to_receive = @ \ {sender}]
                         /\ NoEffect(last')
                         /\ NothingSentOrStored
                    ELSE /\ d2 = [d EXCEPT !.init_confirmations_to_receive = {},
                                           !.state = WaitingForMoveConfirmation]
                         /\ last'.sends = MoveOrders
                         /\ last'.stores = <<>>]_vars

C13_Witness ==
    /\ last.node = master_node_id
    /\ IsConfirmInitialization(last)
    /\ last.result = "Ok"
    /\ data[master_node_id].state = WaitingForMoveConfirmation
    /\ Cardinality(Keys(Agreed)) = 2
    /\ master_node_id \in Keys(Agreed)
    /\ BagCardinality(last.sends) = 2


\* C19: in a run of the protocol no share is lost: the storage of a source
\* is empty only when the destination assigned to it has accepted the
\* source's ShareMove and holds the delivered record, as its received share
\* or in its storage; so at every moment the secret share of every
\* evaluation point is held by at least one node.
C19_NoShareLost ==
    /\ \A s \in Keys(Agreed) : key_storage[s] = None =>
          HoldsDelivered(data[Agreed[s]], key_storage[Agreed[s]], OriginalShare(s))
    /\ \A h \in OldNodes : \E n \in Nodes :
          HoldsDelivered(data[n], key_storage[n], OriginalShare(h))

C19_Witness ==
    /\ Cardinality(Keys(Agreed)) = 2
    /\ \E s \in Keys(Agreed) :
          /\ key_storage[s] = None
          /\ data[Agreed[s]].received_key_share = Some(OriginalShare(s))
          /\ key_storage[Agreed[s]] = None

\* C20: in a run started by initialize with a valid map in which every
\* message sent is delivered once, in any order, no process_message call
\* returns an error: every message finds its receiver in a state that
\* accepts it.
C20_NoErrorInProtocolRun ==
    IsProcessMessage(last) => last.result = "Ok"

C20_Witness ==
    /\ Completed
    /\ Cardinality(Keys(Agreed)) = 2
    /\ last.message.kind = "ShareMoveConfirm"
    /\ last.result = "Ok"
    /\ \A x \in Values(Agreed) :
          <<master_node_id, "ShareMoveConfirm", x>> \in accepted


(***************************************************************************)
(* Properties of proposals and confirmations of the initialization (Spec). *)
(***************************************************************************)
IsProposal(call) ==
    /\ call.message.kind = "InitializeShareMoveSession"
    /\ call.message.session_nonce = nonce
\* the map m passes validation on node n
ValidFor(n, m) ==
    /\ Keys(m) # {}
    /\ PairwiseDistinct(m)
    /\ BranchRule(n, m, id_numbers_of(key_share(n)))
\* the role the map m gives node n agrees with the share n holds
RoleConsistent(n, m) ==
    /\ n \in Keys(m) => key_share(n) # None
    /\ (n \in Values(m) /\ n \notin Keys(m)) => key_share(n) = None

\* C14: a peer in WaitingForInitialization that receives from the master a
\* proposal whose map passes validation and the role cross-check moves to
\* WaitingForMoveConfirmation, records the map, sets its move-outstanding
\* set to the destinations of the map and sends exactly one
\* ConfirmShareMoveInitialization, to the master.  A proposal from a sender
\* that is not the master returns InvalidMessage, and such a valid proposal
\* from the master in any other state returns InvalidStateForRequest; both
\* change nothing and send nothing.
C14_ProposalAccepted ==
    [][IsProposal(last') =>
          LET n == last'.node
              sender == last'.message.from
              m == last'.message.shares_to_move
              valid == sender = master_node_id /\ ValidFor(n, m) /\ RoleConsistent(n, m)
              unchanged == /\ data' = data
                           /\ NoEffect(last')
                           /\ NothingSentOrStored
          IN  /\ (valid /\ data[n].state = WaitingForInitialization) =>
                    /\ last'.result = "Ok"
                    /\ data'[n] = [data[n] EXCEPT !.state = WaitingForMoveConfirmation,
                                                  !.shares_to_move = m,
                                                  !.move_confirmations_to_receive = Values(m)]
                    /\ \A x \in Nodes \ {n} : data'[x] = data[x]
                    /\ last'.sends = SetToBag({ConfirmShareMoveInitialization(n, master_node_id)})
                    /\ last'.stores = <<>>
                    /\ key_storage' = key_storage
              /\ sender # master_node_id =>
                    (last'.result = "InvalidMessage" /\ unchanged)
              /\ (valid /\ data[n].state # WaitingForInitialization) =>
                    (last'.result = "InvalidStateForRequest" /\ unchanged)]_vars

C14_Witness ==
    /\ IsProposal(last)
    /\ last.result = "Ok"
    /\ last.node = 4
    /\ Cardinality(Keys(last.message.shares_to_move)) = 2
    /\ data[4].state = WaitingForMoveConfirmation
    /\ data[4].move_confirmations_to_receive = {4, 5}
    /\ BagCardinality(last.sends) = 1

\* C15: a peer rejects a proposal whenever the share it holds contradicts
\* its role in the map: a listed source that holds no share, a listed
\* destination that is not a source and holds a share, and a peer that
\* holds no share and is not listed as a destination each return an error,
\* keep their state and session data, and send no confirmation.
C15_RoleContradictionRejected ==
    [][IsProposal(last') =>
          LET n == last'.node
              m == last'.message.shares_to_move
              contradiction ==
                  \/ n \in Keys(m) /\ key_share(n) = None
                  \/ n \in Values(m) /\ n \notin Keys(m) /\ key_share(n) # None
                  \/ key_share(n) = None /\ n \notin Values(m)
          IN  contradiction =>
                 /\ last'.result \in {"InvalidMessage", "InvalidNodesConfiguration"}
                 /\ data' = data
                 /\ NoEffect(last')
                 /\ NothingSentOrStored]_vars

C15_Witness ==
    /\ IsProposal(last)
    /\ last.message.from = master_node_id
    /\ last.node = 5
    /\ Keys(last.message.shares_to_move) = {2}
    /\ Values(last.message.shares_to_move) = {4}
    /\ last.result = "InvalidMessage"
    /\ data[5].state = WaitingForInitialization


\* the call is a ConfirmShareMoveInitialization, with the right nonce, from
\* a sender whose confirmation the master has accepted before
IsSecondConfirmation(call) ==
    /\ call.node = master_node_id
    /\ IsConfirmInitialization(call)
    /\ call.message.session_nonce = nonce
    /\ <<master_node_id, "ConfirmShareMoveInitialization", call.message.from>> \in accepted

\* C17, as stated: on the master, every second
\* ConfirmShareMoveInitialization from a sender that has already confirmed
\* returns InvalidMessage, while other confirmations are outstanding and
\* after the last confirmation has been accepted alike.
C17_SecondConfirmationInvalidMessage ==
    [][IsSecondConfirmation(last') => last'.result = "InvalidMessage"]_vars

\* C17, amended: on the master, every second ConfirmShareMoveInitialization
\* from a sender that has already confirmed fails and changes nothing; it
\* returns InvalidMessage while the master is in
\* WaitingForInitializationConfirm, that is while other confirmations are
\* outstanding, and InvalidStateForRequest once the master has left that
\* state, as it has after the last confirmation was accepted.
C17_SecondConfirmationByState ==
    [][IsSecondConfirmation(last') =>
          /\ last'.result =
                IF data[master_node_id].state = WaitingForInitializationConfirm
                THEN "InvalidMessage" ELSE "InvalidStateForRequest"
          /\ data' = data
          /\ NoEffect(last')
          /\ NothingSentOrStored]_vars

C17_Witness ==
    /\ last.node = master_node_id
    /\ IsConfirmInitialization(last)
    /\ last.message.session_nonce = nonce
    /\ <<master_node_id, "ConfirmShareMoveInitialization", last.message.from>> \in accepted
    /\ last.result = "InvalidStateForRequest"
    /\ data[master_node_id].state = WaitingForMoveConfirmation
    /\ data[master_node_id].init_confirmations_to_receive = {}


(***************************************************************************)
(* The order of the session states (Spec).                                 *)
(***************************************************************************)
\* the position of a state in the declaration of SessionState
Rank(state) ==
    CASE state = WaitingForInitialization -> 0
      [] state = WaitingForInitializationConfirm -> 1
      [] state = WaitingForMoveConfirmation -> 2
      [] state = Finished -> 3

\* C16: the state of a session only moves forward along
\* WaitingForInitialization, WaitingForInitializationConfirm,
\* WaitingForMoveConfirmation, Finished: no step takes it to an earlier
\* state, no step leaves Finished, and the session of a node that is not the
\* master is never in WaitingForInitializationConfirm.
C16_StateMovesForward ==
    [][\A n \in Nodes :
          /\ Rank(data'[n].state) >= Rank(data[n].state)
          /\ data[n].state = Finished => data'[n].state = Finished
          /\ n # master_node_id => data'[n].state # WaitingForInitializationConfirm]_vars


(***************************************************************************)
(* Calls made by several threads at once (ConcurrentSpec).  Every handler  *)
(* takes the lock of the session's data once (lines 133, 214, 245, 288,    *)
(* 307, 355, 372) and holds it until it returns.  A call is three steps:   *)
(* the thread takes the lock and reads the data, it writes the data, it    *)
(* sends, stores, returns and so releases the lock.  What a handler checks *)
(* before it takes the lock depends on the message and the session core    *)
(* alone and is computed with the read.                                    *)
(***************************************************************************)
\* faulty variant: the lock is granted while another thread holds it
lock_free_always(n) == TRUE

\* Mutex::lock returns when no thread holds the lock of the session of node n
lock_free(n) ==
    \A t \in Threads : threads[t].pc \in {"idle", "waiting"} \/ threads[t].node # n

\* the outcome of the call with input message on the data node n holds now
call_outcome(n, message) ==
    IF message.kind = "initialize" THEN initialize(n, message.shares_to_move)
    ELSE process_message(n, message.from, message)

\* thread t, the first idle one, enters the call with input message on node
\* n, takes the lock and reads the data.  The sessions of different nodes
\* share no data: the threads that are in a call at the same time are in
\* calls on the same session.
Enter(t, n, message) ==
    /\ threads[t].pc = "idle"
    /\ \A u \in Threads : u < t => threads[u].pc # "idle"
    /\ \A u \in Threads : threads[u].pc \in {"locked", "updated"} => threads[u].node = n
    /\ lock_free(n)
    /\ threads' = [threads EXCEPT ![t] =
                      [pc |-> "locked", node |-> n, message |-> message,
                       outcome |-> call_outcome(n, message)]]

\* a thread calls initialize on the master
StartInitialize ==
    /\ Running
    /\ ~initialize_called
    /\ \E t \in Threads, shares_to_move \in Mappings :
          Enter(t, master_node_id, InitializeCall(master_node_id, shares_to_move))
    /\ initialize_called' = TRUE
    /\ UNCHANGED <<data, key_storage, storage_calls, network, last, accepted, extra_calls>>

\* a thread takes a message from the transport and calls process_message
StartDeliver ==
    /\ Running
    /\ \E t \in Threads, message \in BagToSet(network) :
          /\ Enter(t, message.to, message)
          /\ network' = network (-) SetToBag({message})
    /\ UNCHANGED <<data, key_storage, storage_calls, last, accepted,
                   initialize_called, extra_calls>>

\* the thread writes the session data of its call
Update ==
    /\ \E t \in Threads :
          /\ threads[t].pc = "locked"
          /\ data' = [data EXCEPT ![threads[t].node] = threads[t].outcome.data]
          /\ threads' = [threads EXCEPT ![t].pc = "updated"]
    /\ UNCHANGED <<key_storage, storage_calls, network, last, accepted,
                   initialize_called, extra_calls>>

\* the thread sends the messages and makes the storage call of its call,
\* returns and releases the lock
Return ==
    /\ \E t \in Threads :
          LET n == threads[t].node
              message == threads[t].message
              o == threads[t].outcome
          IN  /\ threads[t].pc = "updated"
              /\ key_storage' = [key_storage EXCEPT ![n] = apply_storage(@, o.stores)]
              /\ storage_calls' = [storage_calls EXCEPT ![n] = @ \o StorageOps(o.stores)]
              /\ network' = network (+) o.sends
              /\ last' = [node |-> n, message |-> message, result |-> o.result,
                          sends |-> o.sends, stores |-> o.stores]
              /\ accepted' = IF o.result = "Ok" /\ message.kind \in Confirmations
                             THEN accepted \cup {<<n, message.kind, message.from>>}
                             ELSE accepted
              /\ threads' = [threads EXCEPT ![t] = IdleThread]
    /\ UNCHANGED <<data, initialize_called, extra_calls>>

\* the transport hands a proposal or a confirmation that a thread is
\* processing to another thread as well, which calls process_message with it
\* and waits for the lock
Repeatable ==
    {"InitializeShareMoveSession", "ConfirmShareMoveInitialization", "ShareMoveConfirm"}
Contend ==
    /\ Running
    /\ extra_calls < MaxExtraCalls
    /\ \E t, u \in Threads :
          /\ threads[t].pc \in {"locked", "updated"}
          /\ threads[t].message.kind \in Repeatable
          /\ threads[u].pc = "idle"
          /\ threads' = [threads EXCEPT ![u] =
                            [pc |-> "waiting", node |-> threads[t].node,
                             message |-> threads[t].message,
                             outcome |-> IdleThread.outcome]]
    /\ extra_calls' = extra_calls + 1
    /\ UNCHANGED <<data, key_storage, storage_calls, network, last, accepted,
                   initialize_called>>

\* a waiting thread gets the lock and reads the data
Acquire ==
    /\ \E t \in Threads :
          /\ threads[t].pc = "waiting"
          /\ lock_free(threads[t].node)
          /\ threads' = [threads EXCEPT ![t].pc = "locked",
                            ![t].outcome = call_outcome(threads[t].node, threads[t].message)]
    /\ UNCHANGED <<data, key_storage, storage_calls, network, last, accepted,
                   initialize_called, extra_calls>>

ConcurrentNext ==
    StartInitialize \/ StartDeliver \/ Contend \/ Acquire \/ Update \/ Return
ConcurrentSpec == Init /\ [][ConcurrentNext]_vars

\* thread t holds the lock of a session
InCall(t) == threads[t].pc \in {"locked", "updated"}
\* node n has handed a ConfirmShareMoveInitialization to the transport
ConfirmationSent(n) ==
    \/ CopiesIn(ConfirmShareMoveInitialization(n, master_node_id), network) > 0
    \/ \E t \in Threads :
          /\ threads[t].pc # "idle"
          /\ threads[t].message = ConfirmShareMoveInitialization(n, master_node_id)
    \/ <<master_node_id, "ConfirmShareMoveInitialization", n>> \in accepted
\* the run is over: every message was delivered and every call has returned
Quiet == Completed /\ \A t \in Threads : threads[t].pc = "idle"

\* C18: calls that several threads make on one session at the same time
\* have the effect of the same calls made one after the other.  A thread
\* reads the session data only while no other thread is between its read
\* and its return; what a call writes, sends and stores is what the call
\* does to the data it finds when it writes, and nothing touches the data
\* between its write and its return.  Of two concurrent proposals to a peer
\* one is accepted and one confirmation is sent; of concurrent move
\* confirmations exactly one completes the session: no session makes a
\* second storage call, and when the run is over every participant has
\* made one.
C18_ConcurrentCallsSerial ==
    [][/\ \A t \in Threads :
             /\ (~InCall(t) /\ threads'[t].pc = "locked") =>
                   \A u \in Threads \ {t} :
                      ~(InCall(u) /\ threads[u].node = threads'[t].node)
             /\ (threads[t].pc = "locked" /\ threads'[t].pc = "updated") =>
                   threads[t].outcome = call_outcome(threads[t].node, threads[t].message)
             /\ (threads[t].pc = "updated" /\ threads'[t].pc = "idle") =>
                   /\ data[threads[t].node] = threads[t].outcome.data
                   /\ (threads[t].message.kind = "InitializeShareMoveSession"
                         /\ threads[t].outcome.result = "Ok")
                         => ~ConfirmationSent(threads[t].node)
                   /\ Len(storage_calls'[threads[t].node]) <= 1
       /\ Quiet => \A n \in Participants : Len(storage_calls[n]) = 1]_vars

C18_Witness ==
    /\ last.message.kind = "InitializeShareMoveSession"
    /\ last.result = "InvalidStateForRequest"
    /\ extra_calls = 1
    /\ data[last.node].state = WaitingForMoveConfirmation
    /\ ConfirmationSent(last.node)
    /\ \A t \in Threads : threads[t].pc = "idle"


(***************************************************************************)
(* Error returns (Spec).                                                   *)
(***************************************************************************)
ProtocolErrors ==
    {"InvalidMessage", "InvalidStateForRequest", "InvalidNodesConfiguration",
     "ReplayProtection"}

\* C21: an initialize or process_message call that returns InvalidMessage,
\* InvalidStateForRequest, InvalidNodesConfiguration or ReplayProtection
\* leaves the session data unchanged (state, both outstanding sets, recorded
\* map, received share), sends no message and makes no storage call.
C21_ErrorsChangeNothing ==
    [][((IsInitialize(last') \/ IsProcessMessage(last'))
          /\ last'.result \in ProtocolErrors) =>
          /\ data' = data
          /\ NoEffect(last')
          /\ NothingSentOrStored]_vars

C21_Witness ==
    /\ last.message.kind = "ShareMoveRequest"
    /\ last.message.from = master_node_id
    /\ last.message.session_nonce = nonce
    /\ last.result = "InvalidMessage"
    /\ data[last.node].state = WaitingForMoveConfirmation
    /\ last.node \notin Keys(data[last.node].shares_to_move)


(***************************************************************************)
(* The expects, and the end of a run of the protocol (ProtocolSpec,        *)
(* FairProtocolSpec).                                                      *)
(***************************************************************************)
\* the records complete_session may re-index on node n
Reindexable(n) == data[n].received_key_share \cup key_share(n)

\* C22: in a run of the protocol no expect fails.  No call panics; a node
\* that its recorded map lists as a source, the only kind move_share runs
\* on, holds its original record; when complete_session has run on a node
\* that is not a source it has re-indexed the node's original record, or on
\* a node without one the record it received from its source; and every
\* record a node may re-index has an id_numbers entry for every source of
\* the map.
C22_ExpectsHold ==
    /\ last.result # "Panic"
    /\ \A n \in Nodes :
          /\ n \in Keys(data[n].shares_to_move) => key_share(n) # None
          /\ \A share \in Reindexable(n) :
                Keys(data[n].shares_to_move) \subseteq Keys(share.id_numbers)
    /\ (last.stores # <<>> /\ last.stores[1].op # "remove") =>
          IF key_share(last.node) # None
          THEN /\ last.stores[1].op = "update"
               /\ SameMaterial(last.stores[1].share, OriginalShare(last.node))
          ELSE /\ last.stores[1].op = "insert"
               /\ \E s \in Keys(Agreed) :
                     /\ Agreed[s] = last.node
                     /\ SameMaterial(last.stores[1].share, OriginalShare(s))

C22_Witness ==
    /\ last.node \in NewNodes
    /\ last.message.kind = "ShareMoveConfirm"
    /\ last.result = "Ok"
    /\ StorageOps(last.stores) = <<"insert">>
    /\ Cardinality(Keys(Agreed)) = 2
    /\ master_node_id \in Keys(Agreed)

\* every message sent is delivered at some time
FairProtocolSpec == ProtocolSpec /\ WF_vars(Deliver)

\* initialize returned Ok on the master
Started == initialize_called /\ data[master_node_id].state # WaitingForInitialization
\* every participant has emptied its move-outstanding set and completed
AllCompleted ==
    /\ \A n \in Participants : data[n].move_confirmations_to_receive = {}
    /\ \A s \in Keys(Agreed) : storage_calls[s] = <<"remove">>
    /\ \A t \in Values(Agreed) : storage_calls[t] = <<"insert">>
    /\ \A h \in OldNodes \ Keys(Agreed) : storage_calls[h] = <<"update">>

\* C23: when every message sent is delivered, after initialize with a valid
\* map every participant's move-outstanding set eventually is empty and its
\* completion runs: each source removes its record, each destination
\* inserts one, each staying holder, the master included, updates its own.
C23_EveryoneCompletes ==
    Started ~> AllCompleted

C23_Witness ==
    /\ Started
    /\ AllCompleted
    /\ Cardinality(Keys(Agreed)) = 2
    /\ master_node_id \notin Keys(Agreed)
    /\ storage_calls[master_node_id] = <<"update">>

====
